---- MODULE Spec2Model ----
(***************************************************************************)
(* Model of the chess tournament calendar feed generator                   *)
(* (src/generate_calendar.py, src/config.py): the retrying structuring     *)
(* client call_llm_with_retry, the calendar builder generate_ics_calendar  *)
(* and the orchestrator run.                                               *)
(*                                                                         *)
(* Representation of Python values:                                        *)
(*   dict            a TLA+ record; "k in d" is  k \in DOMAIN d            *)
(*   list            a sequence                                            *)
(*   date string     [fmt, day]: fmt "iso" is YYYY-MM-DD, "text" another   *)
(*                   spelling of a date the lenient parser resolves,       *)
(*                   "bad" a string no parser resolves ("invalid-date")    *)
(*   time string     the sequence of its ":"-separated parts, each part    *)
(*                   [num, n]: num says whether int() accepts the part     *)
(*   completion text a sequence of tokens: whitespace, the ``` marker,     *)
(*                   the word json, or one document                        *)
(*   datetime        minutes since 00:00 of day 0                          *)
(***************************************************************************)
EXTENDS Integers, Sequences, FiniteSets, TLC

\* ------------------------------------------------------------------ bounds
MaxDay == 2
MaxArr == 2
MaxRetriesBound == 3
MaxRecords == 2
MaxContentLen == 3
MaxCards == 2

\* ------------------------------------------------------- program constants
DEFAULT_EVENT_DURATION_HOURS == 3
DefaultMaxRetries == 3
DefaultDelay == 2
MinutesPerHour == 60
MinutesPerDay == 1440
HoursPerDay == 24

\* ------------------------------------------------------------ date strings
Iso(d) == [fmt |-> "iso", day |-> d]
Text(d) == [fmt |-> "text", day |-> d]
BadDate == [fmt |-> "bad", day |-> 0]
Days == 1..MaxDay
IsoDates == {Iso(d) : d \in Days}

\* dateutil.parser.parse: raises on a string it cannot resolve, else the
\* datetime at midnight of the day the string names
parse_date_raises(s) == s.fmt = "bad"
parse_date(s) == s.day * MinutesPerDay

\* datetime.strptime(s, "%Y-%m-%d"): accepts the ISO spelling only
strptime_raises(s) == s.fmt # "iso"
strptime(s) == s.day * MinutesPerDay

\* datetime.date(): drops the time of day
DateOf(dt) == dt \div MinutesPerDay

\* ------------------------------------------------------- exception classes
\* the classes an exception is an instance of
Bases(exc) ==
    CASE exc = "Timeout" -> {"Timeout", "RequestException"}
      [] exc = "HTTPError" -> {"HTTPError", "RequestException"}
      [] exc = "JSONDecodeError" -> {"JSONDecodeError", "ValueError"}
      [] exc = "IndexError" -> {"IndexError", "LookupError"}
      [] exc = "KeyError" -> {"KeyError", "LookupError"}
      [] OTHER -> {exc}

\* except (json.JSONDecodeError, KeyError, ValueError, requests.RequestException)
ExceptClause == {"JSONDecodeError", "KeyError", "ValueError", "RequestException"}

IsCaught(exc) == Bases(exc) \cap ExceptClause # {}

\* ------------------------------------------------- completion text (tokens)
WS == [t |-> "ws"]
FENCE == [t |-> "fence"]
JSONTAG == [t |-> "json"]
Doc(v) == [t |-> "doc", v |-> v]

RECURSIVE lstrip(_)
lstrip(c) == IF c # <<>> /\ Head(c) = WS THEN lstrip(Tail(c)) ELSE c

RECURSIVE rstrip(_)
rstrip(c) ==
    IF c # <<>> /\ c[Len(c)] = WS THEN rstrip(SubSeq(c, 1, Len(c) - 1)) ELSE c

\* str.strip()
strip(c) == rstrip(lstrip(c))

\* the slip of handling the bare marker only: a tagged fence is never seen
StartsWithJsonFenceNever(c) == FALSE

\* content.startswith("```json"), content.startswith("```"), content.endswith("```")
StartsWithJsonFence(c) == Len(c) >= 2 /\ c[1] = FENCE /\ c[2] = JSONTAG
StartsWithFence(c) == Len(c) >= 1 /\ c[1] = FENCE
EndsWithFence(c) == Len(c) >= 1 /\ c[Len(c)] = FENCE

\* lines 106-113: strip, drop a leading ```json, a leading ```, a trailing ```, strip
CleanContent(content) ==
    LET c0 == strip(content)
        c1 == IF StartsWithJsonFence(c0) THEN SubSeq(c0, 3, Len(c0)) ELSE c0
        c2 == IF StartsWithFence(c1) THEN Tail(c1) ELSE c1
        c3 == IF EndsWithFence(c2) THEN SubSeq(c2, 1, Len(c2) - 1) ELSE c2
    IN  strip(c3)

\* json.loads: the text must be exactly one well-formed document
json_loads_raises(c) == ~(Len(c) = 1 /\ c[1].t = "doc" /\ c[1].v.type # "garbage")
json_loads(c) == c[1].v

\* ---------------------------------------------------- structured documents
Garbage == [type |-> "garbage"]
JsonObject == [type |-> "dict"]
JsonList(items) == [type |-> "list", items |-> items]
Scalar == [type |-> "scalar"]
Dict(d) == [type |-> "dict", d |-> d]

\* the slip of copying date into start_date without deleting date
NormalizeEventKeepingDate(d) ==
    IF "date" \in DOMAIN d /\ "start_date" \notin DOMAIN d
    THEN [k \in DOMAIN d \cup {"start_date"} |->
             IF k = "start_date" THEN d["date"] ELSE d[k]]
    ELSE d

\* lines 128-130: the legacy key date becomes start_date
NormalizeEvent(d) ==
    IF "date" \in DOMAIN d /\ "start_date" \notin DOMAIN d
    THEN [k \in (DOMAIN d \ {"date"}) \cup {"start_date"} |->
             IF k = "start_date" THEN d["date"] ELSE d[k]]
    ELSE d

\* lines 133-142: an element with end_date is dropped when a date does not
\* parse or when the end is before the start
DateRangeRejected(d) ==
    /\ "end_date" \in DOMAIN d
    /\ \/ parse_date_raises(d["start_date"])
       \/ parse_date_raises(d["end_date"])
       \/ DateOf(parse_date(d["end_date"])) < DateOf(parse_date(d["start_date"]))

\* line 124 and line 126: the element is a dict with a title and a date key
HasTitle(e) == e.type = "dict" /\ "title" \in DOMAIN e.d
HasDateKey(e) == "start_date" \in DOMAIN e.d \/ "date" \in DOMAIN e.d

\* lines 122-144: the loop over the array
RECURSIVE ValidEvents(_)
ValidEvents(items) ==
    IF items = <<>> THEN <<>>
    ELSE LET event == Head(items)
             rest == ValidEvents(Tail(items))
         IN  IF HasTitle(event) /\ HasDateKey(event)
             THEN LET n == NormalizeEvent(event.d)
                  IN  IF DateRangeRejected(n) THEN rest ELSE <<n>> \o rest
             ELSE rest

\* line 103: response.json()["choices"][0]["message"]["content"]
ExtractContent(body) ==
    IF "choices" \notin DOMAIN body THEN [exc |-> "KeyError"]
    ELSE IF body.choices = <<>> THEN [exc |-> "IndexError"]
    ELSE IF "message" \notin DOMAIN body.choices[1] THEN [exc |-> "KeyError"]
    ELSE IF "content" \notin DOMAIN body.choices[1].message THEN [exc |-> "KeyError"]
    ELSE [exc |-> "", content |-> body.choices[1].message.content]

\* lines 91-150: one pass through the try block; exc "" is the return
Ok(events) == [exc |-> "", events |-> events]
Raises(exc) == [exc |-> exc, events |-> <<>>]

AttemptOutcome(response) ==
    IF response.status = "timeout" THEN Raises("Timeout")
    ELSE IF response.status = "http_error" THEN Raises("HTTPError")
    ELSE IF response.status = "not_json" THEN Raises("JSONDecodeError")
    ELSE LET got == ExtractContent(response.body)
         IN  IF got.exc # "" THEN Raises(got.exc)
             ELSE IF got.content.type = "null" THEN Raises("AttributeError")
             ELSE LET content == CleanContent(got.content.text)
                  IN  IF json_loads_raises(content) THEN Raises("JSONDecodeError")
                      ELSE LET structured_data == json_loads(content)
                           IN  IF structured_data.type # "list" THEN Raises("ValueError")
                               ELSE LET valid_events == ValidEvents(structured_data.items)
                                    IN  IF valid_events = <<>> THEN Raises("ValueError")
                                        ELSE Ok(valid_events)

\* the off-by-one slip: one more sleep instead of the final raise
ShouldRetryOnLast(a, n) == a <= n

\* line 154: if attempt < max_retries
ShouldRetry(a, n) == a < n

\* ------------------------------------------------------------ time strings
Num(n) == [num |-> TRUE, n |-> n]
NotNum == [num |-> FALSE, n |-> 0]
NoonHour == 12
\* the default of event_data.get("time", "12:00")
DefaultTime == <<Num(NoonHour), Num(0)>>

\* datetime.replace(hour=, minute=) raises ValueError outside 0..23 / 0..59
replace_raises(hour, minute) ==
    ~(hour \in 0..(HoursPerDay - 1) /\ minute \in 0..(MinutesPerHour - 1))
replace(dt, hour, minute) ==
    DateOf(dt) * MinutesPerDay + hour * MinutesPerHour + minute

\* ------------------------------------------------------- calendar builder
None == "None"

\* lines 177-182 and 186-189: the lenient parser, then the strict fallback
ParseWithFallback(s) ==
    IF ~parse_date_raises(s) THEN [exc |-> "", dt |-> parse_date(s)]
    ELSE IF ~strptime_raises(s) THEN [exc |-> "", dt |-> strptime(s)]
    ELSE [exc |-> "ValueError", dt |-> 0]

\* line 184: if end_date_str and end_date_str != start_date_str
IsMultiDay(event_data) ==
    /\ "end_date" \in DOMAIN event_data
    /\ event_data["end_date"] # event_data["start_date"]

\* line 202: if time_str and ":" in time_str
HasColon(time_str) == Len(time_str) >= 2

\* lines 199-208: the start instant of a single-day event
EventDatetime(event_data, start_date) ==
    LET time_str == IF "time" \in DOMAIN event_data
                    THEN event_data["time"] ELSE DefaultTime
    IN  IF HasColon(time_str)
        THEN IF ~time_str[1].num \/ ~time_str[2].num
             THEN [exc |-> "ValueError", dt |-> 0]
             ELSE IF replace_raises(time_str[1].n, time_str[2].n)
             THEN [exc |-> "ValueError", dt |-> 0]
             ELSE [exc |-> "", dt |-> replace(start_date, time_str[1].n, time_str[2].n)]
        ELSE [exc |-> "", dt |-> replace(start_date, NoonHour, 0)]

\* lines 215-220
Optional(event_data, key) ==
    IF key \in DOMAIN event_data THEN event_data[key] ELSE None

NewEvent(uid, event_data, all_day, begin, end) ==
    [uid |-> uid, name |-> event_data["title"], all_day |-> all_day,
     begin |-> begin, end |-> end,
     location |-> Optional(event_data, "location"),
     description |-> Optional(event_data, "description")]

Skip(exc) == [exc |-> exc]

\* the off-by-one slip: the inclusive last day stored as the end
AllDayEndInclusive(end_date) == DateOf(end_date)

\* line 192: (end_date + timedelta(days=1)).date()
AllDayEnd(end_date) == DateOf(end_date + MinutesPerDay)

\* lines 169-222: the try block for one record; uid stands for the identifier
\* Event() draws for each new event
ProcessRecord(event_data, uid) ==
    IF "title" \notin DOMAIN event_data THEN Skip("KeyError")
    ELSE IF "start_date" \notin DOMAIN event_data THEN Skip("KeyError")
    ELSE LET start == ParseWithFallback(event_data["start_date"])
         IN  IF start.exc # "" THEN Skip(start.exc)
             ELSE IF IsMultiDay(event_data)
             THEN LET end == ParseWithFallback(event_data["end_date"])
                  IN  IF end.exc # "" THEN Skip(end.exc)
                      ELSE LET begin_day == DateOf(start.dt)
                               end_day == AllDayEnd(end.dt)
                           IN  \* Event.end refuses a value before Event.begin
                               IF end_day < begin_day THEN Skip("ValueError")
                               ELSE [exc |-> "",
                                     event |-> NewEvent(uid, event_data, TRUE,
                                                  begin_day * MinutesPerDay,
                                                  end_day * MinutesPerDay)]
             ELSE LET at == EventDatetime(event_data, start.dt)
                  IN  IF at.exc # "" THEN Skip(at.exc)
                      ELSE [exc |-> "",
                            event |-> NewEvent(uid, event_data, FALSE, at.dt,
                                         at.dt + DEFAULT_EVENT_DURATION_HOURS * MinutesPerHour)]

\* -------------------------------------------------------- parsed documents
\* an element: its class attribute, the strings directly inside it, and its
\* child elements
Element(cls, strings, kids) == [cls |-> cls, strings |-> strings, kids |-> kids]
Leaf(cls, strings) == Element(cls, strings, <<>>)

\* a container tag (main, body) that may be missing from the document
Absent == [present |-> FALSE, elems |-> <<>>]
Container(elems) == [present |-> TRUE, elems |-> elems]

\* the class tokens of a class attribute, and the attribute values that
\* contain a given substring
Tokens(cls) == IF cls = "" THEN {} ELSE {cls}
Containing(sub) ==
    CASE sub = "event" -> {"event-card", "event", "events-list"}
      [] sub = "tournament" -> {"tournament", "tournament-row"}
      [] OTHER -> {}

\* config.EVENT_SELECTORS: .event-card, .event, .tournament,
\* [class*="event"], [class*="tournament"]
EVENT_SELECTORS ==
    <<[kind |-> "class", name |-> "event-card"],
      [kind |-> "class", name |-> "event"],
      [kind |-> "class", name |-> "tournament"],
      [kind |-> "contains", name |-> "event"],
      [kind |-> "contains", name |-> "tournament"]>>

Matches(sel, el) ==
    IF sel.kind = "class" THEN sel.name \in Tokens(el.cls)
    ELSE el.cls \in Containing(sel.name)

\* the elements below a sequence of siblings, in document order
RECURSIVE Descendants(_)
Descendants(elems) ==
    IF elems = <<>> THEN <<>>
    ELSE <<Head(elems)>> \o Descendants(Head(elems).kids) \o Descendants(Tail(elems))

\* the elements of the document: main is the first child of body when both
\* are there
AllElements(doc) == Descendants(doc.main.elems \o doc.body.elems)

\* soup.select(selector)
select(doc, sel) == SelectSeq(AllElements(doc), LAMBDA el : Matches(sel, el))

RECURSIVE Strings(_)
Strings(elems) ==
    IF elems = <<>> THEN <<>>
    ELSE Head(elems).strings \o Strings(Head(elems).kids) \o Strings(Tail(elems))

\* get_text(separator="\n", strip=True): the stripped strings that are not
\* empty, one per line
Stripped(strings) == SelectSeq(strings, LAMBDA str : str # " ")
get_text(elems) == Stripped(Strings(elems))

\* lines 60-64: soup.find('main') or soup.find('body'), else the document
FallbackText(doc) ==
    IF doc.main.present THEN get_text(doc.main.elems)
    ELSE IF doc.body.present THEN get_text(doc.body.elems)
    ELSE Stripped(doc.title \o Strings(doc.main.elems \o doc.body.elems))

\* the slip of appending every card's text, empty or not
RECURSIVE text_blocks_keeping_empty(_)
text_blocks_keeping_empty(cards) ==
    IF cards = <<>> THEN <<>>
    ELSE <<get_text(<<Head(cards)>>)>> \o text_blocks_keeping_empty(Tail(cards))

\* lines 67-71: the text of each card, kept when it is not empty
RECURSIVE text_blocks(_)
text_blocks(cards) ==
    IF cards = <<>> THEN <<>>
    ELSE LET text == get_text(<<Head(cards)>>)
         IN  (IF text # <<>> THEN <<text>> ELSE <<>>) \o text_blocks(Tail(cards))

\* "\n\n".join(blocks), as lines: an empty line between two blocks
RECURSIVE Join(_)
Join(blocks) ==
    IF blocks = <<>> THEN <<>>
    ELSE IF Len(blocks) = 1 THEN blocks[1]
    ELSE blocks[1] \o <<"">> \o Join(Tail(blocks))

\* ------------------------------------------------------------------ inputs
RECURSIVE SeqsUpTo(_, _)
SeqsUpTo(S, n) ==
    IF n = 0 THEN {<<>>}
    ELSE LET shorter == SeqsUpTo(S, n - 1)
         IN  shorter \cup {Append(q, x) : q \in {r \in shorter : Len(r) = n - 1}, x \in S}

DateStrs == IsoDates \cup {BadDate}

\* array elements a completion can carry
LLMDicts ==
    {[start_date |-> Iso(1)], [title |-> "A"],
     [title |-> "", start_date |-> Iso(1)], [title |-> "", date |-> Iso(1)],
     [title |-> "A", date |-> Iso(1), start_date |-> Iso(MaxDay)],
     [title |-> "A", date |-> Iso(1), time |-> <<Num(10), Num(0)>>, location |-> "L"]}
    \cup {[title |-> "A", start_date |-> s] : s \in DateStrs}
    \cup {[title |-> "A", date |-> s] : s \in DateStrs}
    \cup {[title |-> "A", start_date |-> s, end_date |-> e] :
             s \in DateStrs, e \in {Iso(1), Iso(MaxDay), BadDate}}
    \cup {[title |-> "A", date |-> s, end_date |-> e] :
             s \in IsoDates, e \in {Iso(1), Iso(MaxDay)}}

Elements == {Scalar} \cup {Dict(d) : d \in LLMDicts}
Docs == {Garbage, JsonObject} \cup {JsonList(items) : items \in SeqsUpTo(Elements, MaxArr)}

\* the completion text: a bare document, or a short document in code fences
FencedDocs == {JsonList(items) : items \in SeqsUpTo({Scalar, Dict([title |-> "A", date |-> Iso(1)])}, 1)}
Contents ==
    {<<Doc(v)>> : v \in Docs}
    \cup {<<FENCE, JSONTAG, WS, Doc(v), WS, FENCE>> : v \in FencedDocs}
    \cup {<<WS, FENCE, WS, Doc(v), WS, FENCE, WS>> : v \in FencedDocs}
    \cup {<<>>, <<FENCE, Doc(JsonList(<<>>))>>}

Str(c) == [type |-> "str", text |-> c]
Null == [type |-> "null"]
Body(content) == [choices |-> <<[message |-> [role |-> "assistant", content |-> content]]>>]

Bodies ==
    {[invalid |-> "response"], [choices |-> <<>>],
     [choices |-> <<[index |-> 0]>>],
     [choices |-> <<[message |-> [role |-> "assistant"]]>>],
     Body(Null)}
    \cup {Body(Str(c)) : c \in Contents}

Responses ==
    {[status |-> "timeout"], [status |-> "http_error"], [status |-> "not_json"]}
    \cup {[status |-> "ok", body |-> b] : b \in Bodies}

NoResponse == [status |-> "none"]

Delays == {1, DefaultDelay}

\* records handed to generate_ics_calendar by a direct caller
TimeStrs ==
    {<<Num(18), Num(30)>>, <<Num(23), Num(30)>>, <<Num(25), Num(0)>>,
     <<NotNum, NotNum>>, <<Num(1830)>>, <<>>}

ICSRecords ==
    {[title |-> "A", start_date |-> s] : s \in DateStrs \cup {Text(1)}}
    \cup {[title |-> "A", start_date |-> s, end_date |-> e] :
             s \in DateStrs \cup {Text(1)}, e \in DateStrs}
    \cup {[title |-> "A", start_date |-> Iso(1), time |-> t] : t \in TimeStrs}
    \cup {[title |-> "A", start_date |-> Iso(1), end_date |-> e, time |-> t] :
             e \in {Iso(1), Iso(MaxDay)}, t \in TimeStrs}
    \cup {[title |-> "A", date |-> Iso(1), time |-> <<Num(10), Num(0)>>,
           location |-> "L", description |-> "D"],
          [title |-> "B", date |-> Iso(MaxDay), time |-> <<Num(14), Num(0)>>,
           location |-> "L"],
          [title |-> "B", date |-> BadDate, time |-> <<Num(25), Num(0)>>],
          [start_date |-> Iso(1)], [title |-> "A"],
          [title |-> "A", start_date |-> Iso(1), location |-> "L"],
          [title |-> "A", start_date |-> Iso(1), end_date |-> Iso(MaxDay),
           description |-> "D"]}

\* what scrape_events hands to run: it raises, or it returns a text, here the
\* sequence of its characters (" " is whitespace)
Texts == {<<>>, <<" ">>, <<" ", " ">>, <<"x">>, <<" ", "x", " ">>}
\* the slip of testing "not raw_text" without strip()
IsEmpty(text) == text = <<>>

\* line 243: not raw_text.strip()
IsBlank(text) == \A i \in 1..Len(text) : text[i] = " "

\* pages the site can answer with
Classes == {"event-card", "event", "tournament", "events-list", "tournament-row", ""}
Tags ==
    {Leaf(cls, strings) : cls \in Classes, strings \in {<<>>, <<"A">>}}
    \cup {Leaf("event-card", <<"B">>), Leaf("", <<" ", "B">>),
          Element("event", <<"A">>, <<Leaf("event", <<"B">>)>>),
          Element("events-list", <<>>, <<Leaf("event-card", <<"A">>), Leaf("", <<"B">>)>>)}
PageMains ==
    {Absent, Container(<<>>), Container(<<Leaf("", <<"M">>)>>),
     Container(<<Leaf("tournament", <<"M">>)>>)}
PageBodies == {Absent} \cup {Container(elems) : elems \in SeqsUpTo(Tags, MaxCards)}
Documents == [title : {<<>>, <<"T">>}, main : PageMains, body : PageBodies]
NoSoup == [title |-> <<>>, main |-> Absent, body |-> Absent]

\* ------------------------------------------------------------------- state
VARIABLES
    entry,        \* the function the caller invoked
    pc,           \* position in the running function
    max_retries, delay, attempt,
    response,     \* the backend's answer to the last requests.post
    trace,        \* backend invocations and sleeps, in order
    result,       \* what call_llm_with_retry returned
    raised,       \* the exception that left the entry function, "" if none
    events_data, idx, calendar, skipped,
    opens, written,
    raw_text, stages,
    plain,        \* a completion text and what one attempt makes of it
    fenced,       \* the same text in code fences and what one attempt makes of it
    soup,         \* the parsed page
    selector,     \* position in EVENT_SELECTORS
    event_cards   \* the matches of the last selector tried

vars == <<entry, pc, max_retries, delay, attempt, response, trace, result, raised,
          events_data, idx, calendar, skipped, opens, written, raw_text, stages,
          plain, fenced, soup, selector, event_cards>>

llm_vars == <<max_retries, delay, attempt, response, trace, result>>
ics_vars == <<events_data, idx, calendar, skipped, opens, written>>
run_vars == <<raw_text, stages>>
fence_vars == <<plain, fenced>>
scrape_vars == <<soup, selector, event_cards>>

NoOutcome == [exc |-> "unset", events |-> <<>>]
NoCall == [content |-> <<>>, outcome |-> NoOutcome]

Post == [op |-> "post", secs |-> 0]
Sleep(d) == [op |-> "sleep", secs |-> d]
Count(op) == Cardinality({i \in 1..Len(trace) : trace[i].op = op})

NotReturned == [kind |-> "unset", events |-> <<>>]
ReturnedNone == [kind |-> "None", events |-> <<>>]
ReturnedList(events) == [kind |-> "list", events |-> events]

NotWritten == [kind |-> "unset", events |-> {}]
WrittenFile(events) == [kind |-> "file", events |-> events]

\* ---------------------------------------------------- call_llm_with_retry
\* the slip of not leaving the loop on success: the value is kept and the
\* attempt is handled like a failed one
LLMReturnsThenRetries(value) ==
    /\ result' = value
    /\ pc' = "llm_sleep"
    /\ UNCHANGED raised

\* return valid_events / fall off the loop: back to the caller
LLMReturns(value) ==
    /\ result' = value
    /\ pc' = IF entry = "run" THEN "run_build" ELSE "done"
    /\ UNCHANGED raised

\* an exception leaves call_llm_with_retry; run logs it and re-raises it
LLMRaises(exc) ==
    /\ raised' = exc
    /\ pc' = "raised"
    /\ UNCHANGED result

\* lines 87-159: one iteration of the loop, up to the return, the sleep or
\* the raise
LLMAttempt ==
    /\ pc = "llm_loop"
    /\ attempt <= max_retries
    /\ \E r \in Responses :
          LET out == AttemptOutcome(r)
          IN  /\ response' = r
              /\ trace' = Append(trace, Post)
              /\ IF out.exc = "" THEN LLMReturns(ReturnedList(out.events))
                 ELSE IF ~IsCaught(out.exc) THEN LLMRaises(out.exc)
                 ELSE IF ShouldRetry(attempt, max_retries)
                 THEN pc' = "llm_sleep" /\ UNCHANGED <<result, raised>>
                 ELSE LLMRaises("RuntimeError")
    /\ UNCHANGED <<entry, max_retries, delay, attempt, ics_vars, run_vars, fence_vars, scrape_vars>>

\* line 156: time.sleep(delay), then the next iteration, which no longer
\* reads the response of this one
LLMSleep ==
    /\ pc = "llm_sleep"
    /\ trace' = Append(trace, Sleep(delay))
    /\ attempt' = attempt + 1
    /\ response' = NoResponse
    /\ pc' = "llm_loop"
    /\ UNCHANGED <<entry, max_retries, delay, result, raised, ics_vars, run_vars, fence_vars, scrape_vars>>

\* line 87: range(1, max_retries + 1) is exhausted without a return or a
\* raise, and the function ends without a return statement
LLMExhausted ==
    /\ pc = "llm_loop"
    /\ attempt > max_retries
    /\ LLMReturns(ReturnedNone)
    /\ UNCHANGED <<entry, max_retries, delay, attempt, response, trace, ics_vars, run_vars, fence_vars, scrape_vars>>

\* -------------------------------------------------- generate_ics_calendar
\* the slip of a loop without the per-record try/except: the first record
\* that raises ends the function
ICSProcessAborting ==
    /\ pc = "ics_loop"
    /\ idx <= Len(events_data)
    /\ LET out == ProcessRecord(events_data[idx], idx)
       IN  IF out.exc = ""
           THEN /\ calendar' = calendar \cup {out.event}
                /\ idx' = idx + 1
                /\ UNCHANGED <<pc, raised>>
           ELSE /\ raised' = out.exc
                /\ pc' = "raised"
                /\ UNCHANGED <<calendar, idx>>
    /\ UNCHANGED <<entry, llm_vars, events_data, skipped, opens, written, run_vars, fence_vars, scrape_vars>>

\* lines 168-226: one iteration of the loop over events_data
ICSProcess ==
    /\ pc = "ics_loop"
    /\ idx <= Len(events_data)
    /\ LET out == ProcessRecord(events_data[idx], idx)
       IN  IF out.exc = ""
           THEN calendar' = calendar \cup {out.event} /\ UNCHANGED skipped
           ELSE skipped' = Append(skipped, idx) /\ UNCHANGED calendar
    /\ idx' = idx + 1
    /\ UNCHANGED <<entry, pc, llm_vars, raised, events_data, opens, written, run_vars, fence_vars, scrape_vars>>

\* lines 228-233: open the output file and write the calendar; the open or
\* the write can fail
ICSWrite ==
    /\ pc = "ics_loop"
    /\ idx > Len(events_data)
    /\ opens' = opens + 1
    /\ \E ok \in BOOLEAN :
          IF ok
          THEN written' = WrittenFile(calendar) /\ pc' = "done" /\ UNCHANGED raised
          ELSE raised' = "OSError" /\ pc' = "raised" /\ UNCHANGED written
    /\ UNCHANGED <<entry, llm_vars, events_data, idx, calendar, skipped, run_vars, fence_vars, scrape_vars>>

\* --------------------------------------------------------------------- run
\* line 241: raw_text = self.scrape_events()
RunExtract ==
    /\ pc = "run_extract"
    /\ stages' = Append(stages, "extract")
    /\ \/ /\ raised' = "RequestException"
          /\ pc' = "raised"
          /\ UNCHANGED raw_text
       \/ \E text \in Texts :
             /\ raw_text' = text
             /\ pc' = "run_structure"
             /\ UNCHANGED raised
    /\ UNCHANGED <<entry, llm_vars, ics_vars, fence_vars, scrape_vars>>

\* lines 243-247: the blank check, then call_llm_with_retry(raw_text) with
\* its default max_retries and delay
RunStructure ==
    /\ pc = "run_structure"
    /\ IF IsBlank(raw_text)
       THEN /\ raised' = "ValueError"
            /\ pc' = "raised"
            /\ UNCHANGED <<stages, max_retries, delay, attempt>>
       ELSE /\ stages' = Append(stages, "structure")
            /\ max_retries' = DefaultMaxRetries
            /\ delay' = DefaultDelay
            /\ attempt' = 1
            /\ pc' = "llm_loop"
            /\ UNCHANGED raised
    /\ UNCHANGED <<entry, response, trace, result, raw_text, ics_vars, fence_vars, scrape_vars>>

\* line 250: generate_ics_calendar(structured_events); len(events_data) at
\* line 163 raises TypeError on None
RunBuild ==
    /\ pc = "run_build"
    /\ stages' = Append(stages, "build")
    /\ response' = NoResponse
    /\ IF result.kind = "list"
       THEN /\ events_data' = result.events
            /\ idx' = 1
            /\ calendar' = {}
            /\ skipped' = <<>>
            /\ pc' = "ics_loop"
            /\ UNCHANGED raised
       ELSE /\ raised' = "TypeError"
            /\ pc' = "raised"
            /\ UNCHANGED <<events_data, idx, calendar, skipped>>
    /\ UNCHANGED <<entry, max_retries, delay, attempt, trace, result, opens, written, raw_text, fence_vars, scrape_vars>>

\* ------------------------------------ one attempt on a given completion
\* completion texts of up to MaxContentLen tokens
FenceDocs ==
    {Garbage, JsonObject, JsonList(<<>>),
     JsonList(<<Dict([title |-> "A", date |-> Iso(1)])>>)}
FenceTokens == {WS, FENCE, JSONTAG} \cup {Doc(v) : v \in FenceDocs}
FenceContents == SeqsUpTo(FenceTokens, MaxContentLen)

\* a pair of code fences: with or without the json tag, with or without
\* whitespace between the markers and the text, and around the whole
Wrappers == [json : BOOLEAN, inner : BOOLEAN, outer : BOOLEAN]
Pad(b) == IF b THEN <<WS>> ELSE <<>>
Wrap(w, c) ==
    Pad(w.outer) \o <<FENCE>> \o (IF w.json THEN <<JSONTAG>> ELSE <<>>) \o Pad(w.inner)
        \o c \o Pad(w.inner) \o <<FENCE>> \o Pad(w.outer)

\* the backend answers with this text
Completion(content) == [status |-> "ok", body |-> Body(Str(content))]

\* lines 103-150 on the text as it is
FencePlain ==
    /\ pc = "fence_plain"
    /\ plain' = [plain EXCEPT !.outcome = AttemptOutcome(Completion(plain.content))]
    /\ pc' = "fence_wrapped"
    /\ UNCHANGED <<entry, llm_vars, raised, ics_vars, run_vars, fenced, scrape_vars>>

\* lines 103-150 on the text in code fences
FenceWrapped ==
    /\ pc = "fence_wrapped"
    /\ fenced' = [fenced EXCEPT !.outcome = AttemptOutcome(Completion(fenced.content))]
    /\ pc' = "done"
    /\ UNCHANGED <<entry, llm_vars, raised, ics_vars, run_vars, plain, scrape_vars>>

\* ----------------------------------------------------------- scrape_events
\* lines 43-46: requests.get and raise_for_status succeed and the page is parsed
ScrapeGet ==
    /\ pc = "scrape_get"
    /\ \E doc \in Documents : soup' = doc
    /\ selector' = 1
    /\ pc' = "scrape_select"
    /\ UNCHANGED <<entry, llm_vars, raised, ics_vars, run_vars, fence_vars, event_cards>>

\* lines 43-44 and 77-79: the request fails; the exception is logged and re-raised
ScrapeGetRaises ==
    /\ pc = "scrape_get"
    /\ \E exc \in {"Timeout", "HTTPError"} :
          /\ "RequestException" \in Bases(exc)
          /\ raised' = exc
    /\ pc' = "raised"
    /\ UNCHANGED <<entry, llm_vars, ics_vars, run_vars, fence_vars, scrape_vars>>

\* lines 52-56: one turn of the selector loop
ScrapeSelect ==
    /\ pc = "scrape_select"
    /\ event_cards' = select(soup, EVENT_SELECTORS[selector])
    /\ IF event_cards' # <<>>
          THEN pc' = "scrape_collect" /\ UNCHANGED selector
          ELSE IF selector < Len(EVENT_SELECTORS)
                  THEN selector' = selector + 1 /\ UNCHANGED pc
                  ELSE pc' = "scrape_fallback" /\ UNCHANGED selector
    /\ UNCHANGED <<entry, llm_vars, raised, ics_vars, run_vars, fence_vars, soup>>

\* lines 58-64: no selector matched
ScrapeFallback ==
    /\ pc = "scrape_fallback"
    /\ raw_text' = FallbackText(soup)
    /\ pc' = "done"
    /\ UNCHANGED <<entry, llm_vars, raised, ics_vars, stages, fence_vars, scrape_vars>>

\* lines 66-75: the texts of the cards
ScrapeCollect ==
    /\ pc = "scrape_collect"
    /\ raw_text' = Join(text_blocks(event_cards))
    /\ pc' = "done"
    /\ UNCHANGED <<entry, llm_vars, raised, ics_vars, stages, fence_vars, scrape_vars>>

\* ---------------------------------------------------------- specifications
Idle ==
    /\ response = NoResponse /\ trace = <<>> /\ result = NotReturned /\ raised = ""
    /\ idx = 1 /\ calendar = {} /\ skipped = <<>> /\ opens = 0 /\ written = NotWritten
    /\ stages = <<>>

NoFence == plain = NoCall /\ fenced = NoCall
NoScrape == soup = NoSoup /\ selector = 0 /\ event_cards = <<>>

\* a caller invokes call_llm_with_retry(raw_text, max_retries, delay)
InitLLM ==
    /\ entry = "llm" /\ pc = "llm_loop"
    /\ max_retries \in -1..MaxRetriesBound /\ delay \in Delays /\ attempt = 1
    /\ events_data = <<>> /\ raw_text = <<"x">>
    /\ Idle /\ NoFence /\ NoScrape

\* a caller invokes generate_ics_calendar(events_data)
InitICS ==
    /\ entry = "ics" /\ pc = "ics_loop"
    /\ max_retries = 0 /\ delay = 0 /\ attempt = 0
    /\ events_data \in SeqsUpTo(ICSRecords, MaxRecords) /\ raw_text = <<>>
    /\ Idle /\ NoFence /\ NoScrape

\* a caller invokes run()
InitRun ==
    /\ entry = "run" /\ pc = "run_extract"
    /\ max_retries = 0 /\ delay = 0 /\ attempt = 0
    /\ events_data = <<>> /\ raw_text = <<>>
    /\ Idle /\ NoFence /\ NoScrape

\* a completion text, bare and in code fences, each given to one attempt
InitFence ==
    /\ entry = "fence" /\ pc = "fence_plain"
    /\ max_retries = 0 /\ delay = 0 /\ attempt = 0
    /\ events_data = <<>> /\ raw_text = <<>>
    /\ Idle /\ NoScrape
    /\ \E c \in FenceContents, w \in Wrappers :
          /\ plain = [content |-> c, outcome |-> NoOutcome]
          /\ fenced = [content |-> Wrap(w, c), outcome |-> NoOutcome]

NextFence == FencePlain \/ FenceWrapped
SpecFence == InitFence /\ [][NextFence]_vars

\* a caller invokes scrape_events()
InitScrape ==
    /\ entry = "scrape" /\ pc = "scrape_get"
    /\ max_retries = 0 /\ delay = 0 /\ attempt = 0
    /\ events_data = <<>> /\ raw_text = <<>>
    /\ Idle /\ NoFence /\ NoScrape

NextScrape == ScrapeGet \/ ScrapeGetRaises \/ ScrapeSelect \/ ScrapeFallback \/ ScrapeCollect
SpecScrape == InitScrape /\ [][NextScrape]_vars

NextLLM == LLMAttempt \/ LLMSleep \/ LLMExhausted
NextICS == ICSProcess \/ ICSWrite
NextRun == RunExtract \/ RunStructure \/ LLMAttempt \/ LLMSleep \/ RunBuild \/ ICSProcess \/ ICSWrite

SpecLLM == InitLLM /\ [][NextLLM]_vars
SpecICS == InitICS /\ [][NextICS]_vars
SpecRun == InitRun /\ [][NextRun]_vars

Init == InitLLM \/ InitICS \/ InitRun \/ InitFence \/ InitScrape
Next == NextLLM \/ NextICS \/ NextRun \/ NextFence \/ NextScrape
Spec == Init /\ [][Next]_vars

\* ============================================================== properties
\* the array a response carries, when its text is a JSON array
ArrayOf(r) == json_loads(CleanContent(r.body.choices[1].message.content.text)).items
CarriesArray(r) ==
    /\ r.status = "ok"
    /\ ExtractContent(r.body).exc = ""
    /\ r.body.choices[1].message.content.type = "str"
    /\ ~json_loads_raises(CleanContent(r.body.choices[1].message.content.text))
    /\ json_loads(CleanContent(r.body.choices[1].message.content.text)).type = "list"

\* a date string names a day
Parseable(s) == s.fmt \in {"iso", "text"}

\* the malformed completions of C1: the text is not JSON, is JSON but not an
\* array, is an array of objects that all lack title, or is an array whose
\* only record has its end_date before its start_date
BareDoc(r) ==
    /\ r.status = "ok"
    /\ "choices" \in DOMAIN r.body
    /\ r.body.choices # <<>>
    /\ "message" \in DOMAIN r.body.choices[1]
    /\ "content" \in DOMAIN r.body.choices[1].message
    /\ r.body.choices[1].message.content.type = "str"
    /\ Len(r.body.choices[1].message.content.text) = 1
    /\ r.body.choices[1].message.content.text[1].t = "doc"
DocOf(r) == r.body.choices[1].message.content.text[1].v

InvertedRecord(e) ==
    /\ e.type = "dict"
    /\ {"title", "start_date", "end_date"} \subseteq DOMAIN e.d
    /\ Parseable(e.d.start_date) /\ Parseable(e.d.end_date)
    /\ e.d.end_date.day < e.d.start_date.day

Malformed(r) ==
    /\ BareDoc(r)
    /\ \/ DocOf(r).type = "garbage"
       \/ DocOf(r).type = "dict"
       \/ /\ DocOf(r).type = "list"
          /\ DocOf(r).items # <<>>
          /\ \A i \in 1..Len(DocOf(r).items) :
                /\ DocOf(r).items[i].type = "dict"
                /\ "title" \notin DOMAIN DocOf(r).items[i].d
       \/ /\ DocOf(r).type = "list"
          /\ Len(DocOf(r).items) = 1
          /\ InvertedRecord(DocOf(r).items[1])

\* the trace is post, sleep(delay), post, ..., with no two posts and no two
\* sleeps in a row
Alternates ==
    \A i \in 1..Len(trace) :
        IF i % 2 = 1 THEN trace[i] = Post ELSE trace[i] = Sleep(delay)

\* C1: with max_retries = N >= 1, an attempt whose completion is malformed
\* (not JSON, not an array, an array of objects without title, or one record
\* with end_date before start_date) fails: it is followed by one sleep of
\* delay when attempts remain and by RuntimeError on attempt N; and whenever
\* RuntimeError is raised the backend was invoked exactly N times, with
\* exactly N - 1 sleeps of delay, one between consecutive invocations and
\* none after the last.
C1_MalformedExhaustsRetries ==
    /\ [][(pc = "llm_loop" /\ pc' # "llm_loop" /\ Malformed(response'))
            => /\ result' = NotReturned
               /\ IF attempt < max_retries
                  THEN pc' = "llm_sleep" /\ raised' = ""
                  ELSE pc' = "raised" /\ raised' = "RuntimeError"]_vars
    /\ [][pc = "llm_sleep" => (trace' = Append(trace, Sleep(delay)) /\ pc' = "llm_loop")]_vars
    /\ [](raised = "RuntimeError"
            => /\ max_retries >= 1
               /\ Count("post") = max_retries
               /\ Count("sleep") = max_retries - 1
               /\ Len(trace) = 2 * max_retries - 1
               /\ Alternates)

\* C1 witness: RuntimeError after three attempts, the last one on a record
\* whose end_date is before its start_date
C1_Witness ==
    /\ raised = "RuntimeError" /\ max_retries = 3 /\ Count("post") = 3
    /\ Malformed(response) /\ DocOf(response).type = "list"
    /\ Len(DocOf(response).items) = 1 /\ InvertedRecord(DocOf(response).items[1])

\* C2: when attempt k returns a list (the first attempt to yield valid
\* records), the backend has been invoked exactly k times with k - 1 sleeps
\* in between, the list is the non-empty list that response yields, and no
\* further backend invocation or sleep can follow.
C2_SuccessReturnsImmediately ==
    result.kind = "list"
        => /\ 1 <= attempt /\ attempt <= max_retries
           /\ Count("post") = attempt
           /\ Count("sleep") = attempt - 1
           /\ Len(trace) = 2 * attempt - 1
           /\ Alternates
           /\ result.events # <<>>
           /\ (entry = "llm" => (CarriesArray(response) /\ Len(result.events) <= Len(ArrayOf(response))))
           /\ ~ENABLED (LLMAttempt \/ LLMSleep)

\* C2 witness: success on the third attempt, after two failures
C2_Witness ==
    result.kind = "list" /\ attempt = 3 /\ Count("post") = 3 /\ Count("sleep") = 2

\* the element with its date given under start_date instead of date
Twin(e) ==
    IF e.type = "dict" /\ "date" \in DOMAIN e.d /\ "start_date" \notin DOMAIN e.d
    THEN Dict([k \in (DOMAIN e.d \ {"date"}) \cup {"start_date"} |->
                  IF k = "start_date" THEN e.d.date ELSE e.d[k]])
    ELSE e
Legacy(e) == e.type = "dict" /\ "date" \in DOMAIN e.d /\ "start_date" \notin DOMAIN e.d
TwinArray(items) == [i \in 1..Len(items) |-> Twin(items[i])]

C9_RaisesOnlyAfterAllRetries ==
    raised # "" => (attempt = max_retries /\ Count("post") = max_retries)

\* the schema of an EventRecord
SchemaOk(rec) ==
    /\ "title" \in DOMAIN rec /\ rec.title # ""
    /\ "start_date" \in DOMAIN rec
    /\ "end_date" \in DOMAIN rec
          => /\ Parseable(rec.start_date) /\ Parseable(rec.end_date)
             /\ rec.end_date.day >= rec.start_date.day

\* C10 as claimed: every record of a returned list has a non-empty title and
\* a start_date, and a date range that parses and is not inverted when it
\* carries end_date.
C10_ReturnedRecordsSatisfySchema ==
    result.kind = "list" => \A i \in 1..Len(result.events) : SchemaOk(result.events[i])

\* the records of events_data handled so far
Handled == 1..(idx - 1)
EventsOf(i) == {ev \in calendar : ev.uid = i}

\* C3: generate_ics_calendar handles every record; a record whose processing
\* raises is skipped and every other record still yields its own event, so
\* the calendar holds exactly one event per record that processes
\* successfully; no exception of a record leaves the function; the output is
\* opened once, after the last record, also when every record was skipped,
\* and what is written is that calendar.
C3_SkipsBadRecordsAndWritesOnce ==
    entry = "ics"
        => /\ calendar = {ProcessRecord(events_data[i], i).event :
                            i \in {j \in Handled : ProcessRecord(events_data[j], j).exc = ""}}
           /\ Cardinality(calendar) + Len(skipped) = idx - 1
           /\ \A i \in Handled :
                 Cardinality(EventsOf(i)) =
                     IF ProcessRecord(events_data[i], i).exc = "" THEN 1 ELSE 0
           /\ raised \in {"", "OSError"}
           /\ opens = IF pc = "ics_loop" THEN 0 ELSE 1
           /\ pc # "ics_loop" => idx = Len(events_data) + 1
           /\ pc = "done" => written = WrittenFile(calendar)

\* C3 witness: two records, the second with an unparsable start_date, one
\* event written
C3_Witness ==
    /\ entry = "ics" /\ pc = "done" /\ Len(events_data) = 2
    /\ "start_date" \in DOMAIN events_data[2] /\ events_data[2].start_date = BadDate
    /\ skipped = <<2>> /\ Cardinality(written.events) = 1

\* C5: a record with a title, a parseable start_date S and an end_date E
\* that is another string, parses and is not before S yields, once handled,
\* exactly one event: an all-day event from midnight of S to midnight of
\* E + 1 day, whatever its time field, its end after its begin.
C5Case(rec) ==
    /\ {"title", "start_date", "end_date"} \subseteq DOMAIN rec
    /\ Parseable(rec.start_date) /\ Parseable(rec.end_date)
    /\ rec.end_date # rec.start_date
    /\ rec.end_date.day >= rec.start_date.day

WellFormedTime(t) ==
    /\ Len(t) = 2 /\ t[1].num /\ t[2].num
    /\ t[1].n \in 0..23 /\ t[2].n \in 0..59

C6Case(rec) ==
    /\ {"title", "start_date"} \subseteq DOMAIN rec
    /\ Parseable(rec.start_date)
    /\ "end_date" \in DOMAIN rec => rec.end_date = rec.start_date

\* C6 as claimed: a record with a title, a parseable start_date and no
\* end_date (or one equal to start_date) yields, once handled, exactly one
\* timed event that ends 3 hours after it begins; it begins at HH:MM of the
\* start date when time is well formed and at 12:00 of the start date when
\* time is absent or malformed.
C6_SingleDayTimedOrNoon ==
    entry = "ics"
        => \A i \in Handled :
              C6Case(events_data[i])
                  => /\ Cardinality(EventsOf(i)) = 1
                     /\ \A ev \in EventsOf(i) :
                           /\ ~ev.all_day
                           /\ ev.end = ev.begin + 3 * 60
                           /\ ev.begin =
                                 IF "time" \in DOMAIN events_data[i]
                                    /\ WellFormedTime(events_data[i].time)
                                 THEN events_data[i].start_date.day * MinutesPerDay
                                        + events_data[i].time[1].n * 60
                                        + events_data[i].time[2].n
                                 ELSE events_data[i].start_date.day * MinutesPerDay + 12 * 60

\* a record that carries its date under the legacy key, with a title and a
\* well-formed time
LegacyRecord(rec) ==
    /\ {"title", "date", "time"} \subseteq DOMAIN rec
    /\ "start_date" \notin DOMAIN rec
    /\ Parseable(rec.date) /\ WellFormedTime(rec.time)

\* C8 as claimed: generate_ics_calendar, called directly, writes one event
\* for every record that carries its date under the legacy key date with a
\* valid title and time.
C8_LegacyRecordsYieldEvents ==
    (entry = "ics" /\ pc = "done")
        => \A i \in 1..Len(events_data) :
              LegacyRecord(events_data[i])
                  => Cardinality({ev \in written.events : ev.uid = i}) = 1

\* a text with nothing but whitespace in it
WhitespaceOnly(text) == \A i \in 1..Len(text) : text[i] \notin {"x"}
StageOrder == <<"extract", "structure", "build">>

\* C4: run() invokes extract, structure, build in this order, each at most
\* once; structure only after an extraction that returned a text that is not
\* blank, build only after structure returned a list; the backend is never
\* invoked and the output never opened before their stage; and when the
\* extraction raises, the text is blank or structuring raises, run() ends by
\* raising, with the output file neither opened nor written.
C4_StagesInOrderAndFailFast ==
    entry = "run"
        => /\ Len(stages) <= 3 /\ stages = SubSeq(StageOrder, 1, Len(stages))
           /\ Len(stages) >= 2 => (~WhitespaceOnly(raw_text) /\ raised # "RequestException")
           /\ Len(stages) >= 3 => (result.kind = "list" /\ result.events # <<>>)
           /\ trace # <<>> => Len(stages) >= 2
           /\ Len(stages) < 3 => (opens = 0 /\ written = NotWritten /\ calendar = {})
           /\ opens <= 1
           /\ (pc \notin {"run_extract", "run_structure"} /\ Len(stages) = 1)
                 => /\ pc = "raised" /\ trace = <<>>
                    /\ raised \in {"RequestException", "ValueError"}
                    /\ raised = "ValueError" => WhitespaceOnly(raw_text)
           /\ (pc \notin {"llm_loop", "llm_sleep", "run_build"} /\ Len(stages) = 2)
                 => /\ pc = "raised" /\ result = NotReturned
                    /\ raised \in {"RuntimeError", "IndexError", "AttributeError"}
           /\ pc = "done" => (Len(stages) = 3 /\ opens = 1 /\ written.kind = "file")

\* C4 witness: a whitespace-only extraction; run() has raised without
\* invoking the backend
C4_Witness ==
    /\ entry = "run" /\ pc = "raised" /\ raised = "ValueError"
    /\ raw_text = <<" ", " ">> /\ stages = <<"extract">> /\ trace = <<>> /\ opens = 0

\* C14 as claimed: for every max_retries, 0 and negative values included,
\* call_llm_with_retry ends by returning a non-empty list of records or by
\* raising, never by returning without a list, and the backend is invoked at
\* most max(max_retries, 0) times.
C14_ReturnsListOrRaises ==
    entry = "llm"
        => /\ pc = "done" => (result.kind = "list" /\ result.events # <<>>)
           /\ Count("post") <= IF max_retries > 0 THEN max_retries ELSE 0

\* the text, trimmed, neither starts with a ``` marker or the word json nor
\* ends with a ``` marker
Unfenced(c) ==
    LET t == strip(c)
    IN  t = <<>> \/ (t[1] \notin {FENCE, JSONTAG} /\ t[Len(t)] # FENCE)

\* both attempts return the same records, or both fail
SameOutcome(a, b) ==
    \/ a.exc = "" /\ b.exc = "" /\ a.events = b.events
    \/ a.exc # "" /\ b.exc # ""

\* C11 as claimed: for every completion text, the attempt on the text in
\* code fences has the outcome of the attempt on the bare text: the same
\* records, or the same failure.
C11_FencedSameAsPlainForAnyContent ==
    (entry = "fence" /\ pc = "done") => SameOutcome(fenced.outcome, plain.outcome)

\* C11 amended: for every completion text that, trimmed, does not itself
\* start with a ``` marker or the word json and does not end with a ```
\* marker, the attempt on the text in code fences has the outcome of the
\* attempt on the bare text: the same records, or the same exception.
C11_FencedSameAsPlain ==
    (entry = "fence" /\ pc = "done" /\ Unfenced(plain.content))
        => fenced.outcome = plain.outcome

\* C11 witness: a JSON array in ```json fences, returned as one record
C11_Witness ==
    /\ entry = "fence" /\ pc = "done"
    /\ plain.content = <<Doc(JsonList(<<Dict([title |-> "A", date |-> Iso(1)])>>))>>
    /\ fenced.content = Wrap([json |-> TRUE, inner |-> TRUE, outer |-> FALSE], plain.content)
    /\ fenced.outcome = Ok(<<[title |-> "A", start_date |-> Iso(1)]>>)
    /\ plain.outcome = fenced.outcome

\* ---- scrape_events
\* the selectors that match something in the page, and the matches of the
\* one that comes first in EVENT_SELECTORS
Matching(doc) ==
    {i \in 1..Len(EVENT_SELECTORS) : select(doc, EVENT_SELECTORS[i]) # <<>>}
FirstMatching(doc) == CHOOSE i \in Matching(doc) : \A j \in Matching(doc) : i <= j
UsedCards(doc) == select(doc, EVENT_SELECTORS[FirstMatching(doc)])
TextsOf(cards) == [i \in 1..Len(cards) |-> get_text(<<cards[i]>>)]
NonEmpty(blocks) == SelectSeq(blocks, LAMBDA b : b # <<>>)
Scraped == entry = "scrape" /\ pc = "done"

\* C12 as claimed: when some selector matches, scrape_events returns the
\* texts of all the matches of the first matching selector, in document
\* order, with a blank line between one text and the next.
C12_TextsOfFirstMatchingSelectorAll ==
    (Scraped /\ Matching(soup) # {})
        => raw_text = Join(TextsOf(UsedCards(soup)))

\* C12: when some selector matches, scrape_events returns the texts that are
\* not empty of the matches of the first matching selector, in document
\* order, with a blank line between one text and the next; the matches of
\* later selectors and the fallback text add nothing.
C12_TextsOfFirstMatchingSelector ==
    (Scraped /\ Matching(soup) # {})
        => raw_text = Join(NonEmpty(TextsOf(UsedCards(soup))))

\* two cards, one of them inside an element that only a later selector
\* matches, next to a main container with an element of a later selector
C12_Witness ==
    /\ Scraped
    /\ soup.main = Container(<<Leaf("tournament", <<"M">>)>>)
    /\ soup.body = Container(<<Element("events-list", <<>>,
                                   <<Leaf("event-card", <<"A">>), Leaf("", <<"B">>)>>),
                               Leaf("event-card", <<"B">>)>>)
    /\ Matching(soup) = {1, 3, 4, 5}
    /\ raw_text = <<"A", "", "B">>

\* the text of the whole page
DocumentText(doc) == Stripped(doc.title \o Strings(doc.main.elems \o doc.body.elems))

\* C13: when the page holds any text, scrape_events returns text that is
\* not empty.
C13_TextWheneverPageHasText ==
    (Scraped /\ DocumentText(soup) # <<>>) => raw_text # <<>>
====
